---- MODULE Spec2Model ----
(***************************************************************************)
(* The AuthContext provider of react-intern and the components that        *)
(* consume it.                                                             *)
(*                                                                         *)
(* AuthProvider is a function component: every render runs its body,       *)
(* which reads localStorage['user'], JSON.parses it and hands the result   *)
(* to useState as the initial state.  login and logout call setUser, which *)
(* queues a state update; the provider renders again to apply it, and a    *)
(* render that changes the state re-renders every mounted component that   *)
(* called useContext(AuthContext).                                         *)
(***************************************************************************)
EXTENDS Integers, Sequences, FiniteSets, TLC

\* ------------------------------------------------------------------ bounds
\* Pending setUser calls that may be queued before the provider renders.
MaxQueue == 2
\* Cap of the history counter owed.
MaxOwed == 2
\* Clicks and calls made on a counter.
MaxClicks == 5
\* Renders of a component that are followed.
MaxRenders == 4
\* Turns of a render/effect cycle that are followed.
MaxLoop == 10
\* Entries of the browser history that are followed.
MaxHistory == 3

\* ------------------------------------------------------------- JS values
Val(t, r, s, n, e) == [tag |-> t, ref |-> r, str |-> s, name |-> n, email |-> e]

Null == Val("null", 0, "", "", "")

Undefined == Val("undefined", 0, "", "", "")

\* An object with identity r and the fields name and email ("" when missing).
Obj(r, n, e) == Val("object", r, "", n, e)

Str(s) == Val("string", 0, s, "", "")

\* No hook state: the provider is not mounted.
NoState == Val("none", 0, "", "", "")

Ann == Obj(1, "Ann", "ann@x.com")

Tooba == Obj(2, "Tooba Shafiq", "tooba@example.com")

\* The arguments callers pass to login.
LoginArgs == {Null, Ann, Tooba}

\* Object.is, by which React decides whether a state changed: null is null,
\* objects are compared by identity, strings by content.
ObjectIs(a, b) ==
    /\ a.tag = b.tag
    /\ CASE a.tag = "object" -> a.ref = b.ref
         [] a.tag = "string" -> a.str = b.str
         [] OTHER -> TRUE

\* ------------------------------------------------- the persisted slot 'user'
\* A stored text is a sequence of lexical tokens; "bad" is a run of
\* characters that is no JSON token.
Tok(k, v) == [k |-> k, v |-> v]

P(c) == Tok("punct", c)

S(s) == Tok("str", s)

TextNull == << Tok("lit", "null") >>

TextAnn == << P("{"), S("name"), P(":"), S("Ann"), P(","),
              S("email"), P(":"), S("ann@x.com"), P("}") >>

TextTruncated == << P("{"), S("name"), P(":"), S("Ann") >>

TextUndefined == << Tok("bad", "undefined") >>

TextEmpty == << >>

\* getItem returns null for a key that is absent.
Absent == << Tok("absent", "") >>

StoredTexts == {TextNull, TextAnn, TextTruncated, TextUndefined, TextEmpty}

StorageContents == StoredTexts \cup {Absent}

\* JSON.parse applies ToString to its argument: null becomes the text null.
ToStringArg(raw) == IF raw = Absent THEN TextNull ELSE raw

Threw == [ok |-> FALSE, val |-> NoState]

Parsed(v) == [ok |-> TRUE, val |-> v]

\* A member value: a string or null (the user record holds nothing else).
IsScalar(t) == t.k = "str" \/ (t.k = "lit" /\ t.v = "null")

SetField(o, key, t) ==
    LET s == IF t.k = "str" THEN t.v ELSE "" IN
    CASE key = "name" -> [o EXCEPT !.name = s]
      [] key = "email" -> [o EXCEPT !.email = s]
      [] OTHER -> o

\* The members of an object from token i on:  key : value  ( , | } ).
RECURSIVE ParseMembers(_, _, _)
ParseMembers(t, i, o) ==
    IF i + 3 > Len(t) THEN Threw
    ELSE IF ~(t[i].k = "str" /\ t[i + 1] = P(":") /\ IsScalar(t[i + 2])) THEN Threw
    ELSE LET o2 == SetField(o, t[i].v, t[i + 2]) IN
         IF t[i + 3] = P("}")
         THEN (IF i + 3 = Len(t) THEN Parsed(o2) ELSE Threw)
         ELSE IF t[i + 3] = P(",") THEN ParseMembers(t, i + 4, o2)
         ELSE Threw

\* JSON.parse: the value of a well-formed text, a SyntaxError otherwise.
JSONparse(raw) ==
    LET t == ToStringArg(raw) IN
    IF Len(t) = 0 THEN Threw
    ELSE IF Len(t) = 1
         THEN (IF t[1].k = "lit" /\ t[1].v = "null" THEN Parsed(Null)
               ELSE IF t[1].k = "str" THEN Parsed(Str(t[1].v))
               ELSE Threw)
    ELSE IF t[1] # P("{") THEN Threw
    ELSE IF Len(t) = 2
         THEN (IF t[2] = P("}") THEN Parsed(Obj(0, "", "")) ELSE Threw)
    ELSE ParseMembers(t, 2, Obj(0, "", ""))

\* ------------------------------------------------------------------- state
Consumers == {"c1", "c2"}

VARIABLES
    storage,       \* localStorage['user']
    pstatus,       \* the provider: "unmounted", "mounted", "crashed"
    user,          \* the state of useState, as of the provider's last render
    queue,         \* setUser calls not yet applied by a render
    observers,     \* the mounted components that called useContext(AuthContext)
    seen,          \* the user a mounted consumer read in its last render
    err,           \* what the last operation raised: "none" or "SyntaxError"
    owed,          \* history: login/logout calls since a consumer mounted,
                   \*   less the re-renders the context gave it
    unsubscribed,  \* history: the consumers unmounted since they last mounted
    lastWrite,     \* history: the value of the most recent login/logout
    lastOp         \* history: the last operation and the consumer it named

\* A second AuthProvider, constructed on its own (a root of its own), with one
\* consumer below it.
VARIABLES
    bStatus,       \* that provider: "unmounted", "mounted", "crashed"
    bUser,         \* its useState state
    bQueue,        \* its setUser calls not yet applied
    bObs,          \* whether its consumer is mounted
    bSeen          \* the user its consumer read in its last render

\* The counters: Home's count with its two buttons, and App's count with the
\* increment it passes down as pressme.
VARIABLES
    hCount,        \* Home: count, as rendered
    hInc,          \* history: Increment clicks
    hDec,          \* history: Decrement clicks
    aCount,        \* App: count, as of App's last render
    aQueue,        \* App: setCount values not yet applied by a render
    aCalls         \* history: calls of increment

\* Usecallback and the memoized Button it renders.
VARIABLES
    cbMounted,     \* Usecallback is mounted
    cbCount,       \* count, as of the last render
    cbOther,       \* otherCount, as of the last render
    cbIncQ,        \* queued updaters prevCount => prevCount + 1
    cbRenders,     \* renders of Usecallback so far
    cbFn,          \* the function increment of the last render, named by the
                   \*   render that created it (0: none)
    btnProps,      \* the props Button was last rendered with
    btnRenders     \* renders of Button so far

\* Useref: a consumer of the AuthContext that tracks the previous count.
VARIABLES
    urCount,       \* count, as of the last render
    urRef,         \* prevCountRef.current
    urShownPrev,   \* what the last render put after "Previous Count:"
    urShownCur,    \* what the last render put after "Current Count:"
    urBefore       \* the value count had before its most recent change

\* Counter: a count kept in a ref next to a count kept in state.
VARIABLES
    rfMounted,     \* Counter is mounted
    rfRef,         \* countRef.current
    rfState,       \* state, as of the last render
    rfShownRef,    \* what the last render put after "Count (ref):"
    rfShownState,  \* what the last render put after "Count (state):"
    rfRenders      \* renders of Counter so far

\* A component with the three effects of the dependency-array examples, and
\* WindowResize.
VARIABLES
    efMounted,     \* the component is mounted
    efCount,       \* count, as of the last render
    efRenders,     \* renders of the component so far
    efLog,         \* for each effect, its runs and cleanups in order
    wrMounted,     \* WindowResize is mounted
    wrWindow,      \* window.innerWidth
    wrWidth,       \* width, as of the last render
    wrRenders,     \* renders of WindowResize so far: each makes a handleResize
    wrEffectFn,    \* the handleResize the effect of this mount registered
    wrListeners    \* the resize listeners registered on window

\* A component whose effect calls setCount(count + 1) and depends on count.
VARIABLES
    lpMounted,     \* the component is mounted
    lpCount,       \* count, as of the last render
    lpQueue,       \* values queued by setCount, not yet rendered
    lpDue          \* the effect is scheduled and has not run yet

\* The useMemo examples: the expensive computation next to a text input, and
\* the sorted list of users.
VARIABLES
    mmMounted,     \* the component with count and text is mounted
    mmCount,       \* count, as of the last render
    mmText,        \* text, as of the last render
    mmRenders,     \* its renders so far
    mmComputes,    \* runs of the expensive computation so far
    soMounted,     \* the component with the list of users is mounted
    soSortBy,      \* sortBy, as of the last render
    soShown,       \* the ids of the users in the order the page lists them
    soClicks,      \* clicks on the sort buttons so far
    soRenders,     \* its renders so far
    soSorts        \* runs of the sort so far

\* Home with the form: name and email.
VARIABLES
    fmMounted,     \* the form is on the page
    fmName,        \* name, as of the last render
    fmEmail,       \* email, as of the last render
    fmNameIn,      \* the last text entered in the name input
    fmEmailIn,     \* the last text entered in the email input
    fmAlert,       \* the text of the last alert
    fmPrevented,   \* the last submit event had its default action prevented
    fmSubmits      \* submit events so far

\* App's route table.
VARIABLES
    rtHistory,     \* the browser history, the current location last
    rtShown        \* the components <Routes> renders at the current location

authVars == << storage, pstatus, user, queue, observers, seen, err,
               owed, unsubscribed, lastWrite, lastOp >>

cellVars == << bStatus, bUser, bQueue, bObs, bSeen >>

ctrVars == << hCount, hInc, hDec, aCount, aQueue, aCalls >>

cbVars == << cbMounted, cbCount, cbOther, cbIncQ, cbRenders, cbFn,
            btnProps, btnRenders >>

urVars == << urCount, urRef, urShownPrev, urShownCur, urBefore >>

rfVars == << rfMounted, rfRef, rfState, rfShownRef, rfShownState, rfRenders >>

efVars == << efMounted, efCount, efRenders, efLog >>

wrVars == << wrMounted, wrWindow, wrWidth, wrRenders, wrEffectFn, wrListeners >>

lpVars == << lpMounted, lpCount, lpQueue, lpDue >>

\* The components of the guides that stand next to the ones above.
mmVars == << mmMounted, mmCount, mmText, mmRenders, mmComputes >>

soVars == << soMounted, soSortBy, soShown, soClicks, soRenders, soSorts >>

fmVars == << fmMounted, fmName, fmEmail, fmNameIn, fmEmailIn, fmAlert,
            fmPrevented, fmSubmits >>

rtVars == << rtHistory, rtShown >>

moreVars == << lpVars, mmVars, soVars, fmVars, rtVars >>

vars == << authVars, cellVars, ctrVars, cbVars, urVars, rfVars, efVars, wrVars,
          moreVars >>

\* again: an unmount of a consumer already unmounted, or a render that applies
\* more than one queued update.
Op(o, w, r) == [op |-> o, who |-> w, again |-> r]

None == [c \in Consumers |-> NoState]

Zero == [c \in Consumers |-> 0]

AuthInit ==
    /\ storage \in StorageContents
    /\ pstatus = "unmounted"
    /\ user = NoState
    /\ queue = << >>
    /\ observers = {}
    /\ seen = None
    /\ err = "none"
    /\ owed = Zero
    /\ unsubscribed = {}
    /\ lastWrite = NoState
    /\ lastOp = Op("init", "", FALSE)

CellInit ==
    /\ bStatus = "unmounted"
    /\ bUser = NoState
    /\ bQueue = << >>
    /\ bObs = FALSE
    /\ bSeen = NoState

\* useState(0) in Home and in App.
CounterInit ==
    /\ hCount = 0
    /\ hInc = 0
    /\ hDec = 0
    /\ aCount = 0
    /\ aQueue = << >>
    /\ aCalls = 0

\* The props of <Button onClick={fn}>Increment Count</Button>.
ButtonProps(fn) == [onClick |-> fn, children |-> "Increment Count"]

NoProps == [onClick |-> 0, children |-> ""]

CallbackInit ==
    /\ cbMounted = FALSE
    /\ cbCount = 0
    /\ cbOther = 0
    /\ cbIncQ = 0
    /\ cbRenders = 0
    /\ cbFn = 0
    /\ btnProps = NoProps
    /\ btnRenders = 0

\* undefined where a number may stand, and a number.
NoNumber == << >>

Num(n) == << n >>

UserefInit ==
    /\ urCount = 0
    /\ urRef = NoNumber
    /\ urShownPrev = NoNumber
    /\ urShownCur = NoNumber
    /\ urBefore = NoNumber

\* The effects of the examples: without a dependency array, with [], and
\* with [count].
Effects == {"every", "once", "count"}

\* The widths the window takes.
Widths == 1 .. 3

EffectInit ==
    /\ efMounted = FALSE
    /\ efCount = 0
    /\ efRenders = 0
    /\ efLog = [k \in Effects |-> << >>]

ResizeInit ==
    /\ wrMounted = FALSE
    /\ wrWindow = 1
    /\ wrWidth = 1
    /\ wrRenders = 0
    /\ wrEffectFn = 0
    /\ wrListeners = {}

LoopInit ==
    /\ lpMounted = FALSE
    /\ lpCount = 0
    /\ lpQueue = << >>
    /\ lpDue = FALSE

MemoInit ==
    /\ mmMounted = FALSE
    /\ mmCount = 0
    /\ mmText = ""
    /\ mmRenders = 0
    /\ mmComputes = 0
    /\ soMounted = FALSE
    /\ soSortBy = "name"
    /\ soShown = << >>
    /\ soClicks = 0
    /\ soRenders = 0
    /\ soSorts = 0

FormInit ==
    /\ fmMounted = FALSE
    /\ fmName = ""
    /\ fmEmail = ""
    /\ fmNameIn = ""
    /\ fmEmailIn = ""
    /\ fmAlert = ""
    /\ fmPrevented = FALSE
    /\ fmSubmits = 0

RouteInit ==
    /\ rtHistory = << >>
    /\ rtShown = {}

RefInit ==
    /\ rfMounted = FALSE
    /\ rfRef = 0
    /\ rfState = 0
    /\ rfShownRef = 0
    /\ rfShownState = 0
    /\ rfRenders = 0

\* Nothing is mounted before the page loads.
Init == AuthInit /\ CellInit /\ CounterInit /\ CallbackInit /\ UserefInit
        /\ RefInit /\ EffectInit /\ ResizeInit /\ LoopInit
        /\ MemoInit /\ FormInit /\ RouteInit

\* --------------------------------------------------------------- operations
\* Mutant: the parse is skipped for an absent slot and data stays undefined.
InitialUser_Undefined(raw) == IF raw = Absent THEN Parsed(Undefined) ELSE JSONparse(raw)

\* Mutant: the provider starts from useState(null), whatever is stored.
InitialUser_Null(raw) == IF JSONparse(raw).ok THEN Parsed(Null) ELSE Threw

\* The initial state handed to useState: JSON.parse of the stored text.
InitialUser(raw) == JSONparse(raw)

\* The first render of AuthProvider (page load, or reload after a crash).  A
\* SyntaxError of JSON.parse leaves the render, and with no error boundary
\* nothing is mounted.
Construct ==
    /\ pstatus # "mounted"
    /\ LET data == InitialUser(storage) IN
       /\ pstatus' = IF data.ok THEN "mounted" ELSE "crashed"
       /\ user' = data.val
       /\ err' = IF data.ok THEN "none" ELSE "SyntaxError"
    /\ queue' = << >>
    /\ observers' = {}
    /\ seen' = None
    /\ owed' = Zero
    /\ unsubscribed' = {}
    /\ lastWrite' = NoState
    /\ lastOp' = Op("construct", "", FALSE)
    /\ UNCHANGED storage

\* Mutant: every setUser call is queued, whatever the value.
SetUser_Always(state, q, v) == Append(q, v)

\* setUser(v): with nothing pending, a value that Object.is the current state
\* schedules no render; anything else is queued for the next render.
SetUser(state, q, v) ==
    IF q = << >> /\ ObjectIs(v, state) THEN q ELSE Append(q, v)

\* Mutant: login drops its argument.
LoginUpdate_Dropped(userData) == Null

\* What login hands to setUser.
LoginUpdate(userData) == userData

\* Mutant: logout calls setUser with no argument.
LogoutUpdate_Undefined == Undefined

\* Mutant: logout goes back to the stored user, setUser(data).
LogoutUpdate_Data == JSONparse(storage).val

\* What logout hands to setUser.
LogoutUpdate == Null

CountWrite == [c \in Consumers |-> IF c \in observers THEN owed[c] + 1 ELSE owed[c]]

CanWrite ==
    /\ pstatus = "mounted"
    /\ Len(queue) < MaxQueue
    /\ \A c \in observers : owed[c] < MaxOwed

\* Mutant: login also stores the record, localStorage.setItem('user', ...).
Login_Persist(userData) ==
    /\ CanWrite
    /\ queue' = SetUser(user, queue, userData)
    /\ owed' = CountWrite
    /\ lastWrite' = userData
    /\ lastOp' = Op("login", "", FALSE)
    /\ err' = "none"
    /\ storage' = IF userData = Null THEN TextNull ELSE TextAnn
    /\ UNCHANGED << pstatus, user, observers, seen, unsubscribed >>

Login(userData) ==
    /\ CanWrite
    /\ queue' = SetUser(user, queue, LoginUpdate(userData))
    /\ owed' = CountWrite
    /\ lastWrite' = userData
    /\ lastOp' = Op("login", "", FALSE)
    /\ err' = "none"
    /\ UNCHANGED << storage, pstatus, user, observers, seen, unsubscribed >>

Logout ==
    /\ CanWrite
    /\ queue' = SetUser(user, queue, LogoutUpdate)
    /\ owed' = CountWrite
    /\ lastWrite' = Null
    /\ lastOp' = Op("logout", "", FALSE)
    /\ err' = "none"
    /\ UNCHANGED << storage, pstatus, user, observers, seen, unsubscribed >>

\* Mutant: the first queued update wins.
Reduce_First(state, q) == q[1]

\* Mutant: every render takes the state from the stored text again.
Reduce_Reinit(state, q) == JSONparse(storage).val

\* The state after the queued updates: each setUser(value) replaces the state.
Reduce(state, q) == q[Len(q)]

\* Mutant: components that have unmounted are still re-rendered.
ToUpdate_All(obs) == Consumers

\* Mutant: the context value is memoized once and no consumer is re-rendered.
ToUpdate_None(obs) == {}

\* The consumers a changed context value re-renders: the value prop is a new
\* object in every render of the provider, so all that are mounted.
ToUpdate(obs) == obs

\* The provider renders again to apply the queued updates.  Its body runs
\* from the top, JSON.parse included; a state that Object.is the previous one
\* ends the render without re-rendering the children.
Render ==
    /\ pstatus = "mounted"
    /\ queue # << >>
    /\ lastOp' = Op("render", "", Len(queue) > 1)
    /\ queue' = << >>
    /\ IF ~JSONparse(storage).ok
       THEN /\ pstatus' = "crashed"
            /\ err' = "SyntaxError"
            /\ user' = NoState
            /\ observers' = {}
            /\ seen' = None
            /\ owed' = Zero
            /\ unsubscribed' = {}
       ELSE LET next == Reduce(user, queue) IN
            /\ err' = "none"
            /\ user' = next
            /\ UNCHANGED << pstatus, observers, unsubscribed >>
            /\ IF ObjectIs(next, user)
               THEN UNCHANGED << seen, owed >>
               ELSE /\ seen' = [c \in Consumers |->
                                   IF c \in ToUpdate(observers) THEN next ELSE seen[c]]
                    /\ owed' = [c \in Consumers |->
                                   IF c \in ToUpdate(observers)
                                   THEN owed[c] - 1 ELSE owed[c]]
    /\ UNCHANGED << storage, lastWrite >>

\* A component that calls useContext(AuthContext) mounts: it renders with the
\* provider's current user.  A mount is a render pass of its own, which
\* leaves no update pending.
Subscribe(c) ==
    /\ pstatus = "mounted"
    /\ queue = << >>
    /\ c \notin observers
    /\ observers' = observers \cup {c}
    /\ seen' = [seen EXCEPT ![c] = user]
    /\ owed' = [owed EXCEPT ![c] = 0]
    /\ unsubscribed' = unsubscribed \ {c}
    /\ lastOp' = Op("subscribe", c, FALSE)
    /\ err' = "none"
    /\ UNCHANGED << storage, pstatus, user, queue, lastWrite >>

\* Mutant: unmounting flips the consumer's membership.
RemoveObserver_Toggle(obs, c) == IF c \in obs THEN obs \ {c} ELSE obs \cup {c}

RemoveObserver(obs, c) == obs \ {c}

\* The consumer unmounts; unmounting what is no longer mounted finds nothing
\* to remove.
Unsubscribe(c) ==
    /\ pstatus = "mounted"
    /\ c \in observers \cup unsubscribed
    /\ observers' = RemoveObserver(observers, c)
    /\ seen' = [k \in Consumers |-> IF k \in observers' THEN seen[k] ELSE NoState]
    /\ owed' = [k \in Consumers |-> IF k \in observers' THEN owed[k] ELSE 0]
    /\ unsubscribed' = (unsubscribed \cup {c}) \ observers'
    /\ lastOp' = Op("unsubscribe", c, c \in unsubscribed)
    /\ err' = "none"
    /\ UNCHANGED << storage, pstatus, user, queue, lastWrite >>

\* Something outside the provider (another script, another tab) rewrites or
\* removes the slot.
StorageChange(s) ==
    /\ s # storage
    /\ storage' = s
    /\ lastOp' = Op("storage", "", FALSE)
    /\ UNCHANGED << pstatus, user, queue, observers, seen, err,
                    owed, unsubscribed, lastWrite >>

\* What consumer c reads from the context: const { user } = useContext(AuthContext).
Read(c) == seen[c]

\* The variables of everything but the provider and its consumers.
notAuth == << cellVars, ctrVars, cbVars, urVars, rfVars, efVars, wrVars, moreVars >>

Next ==
    \/ Construct /\ UNCHANGED notAuth
    \/ \E v \in LoginArgs : Login(v) /\ UNCHANGED notAuth
    \/ Logout /\ UNCHANGED notAuth
    \/ Render /\ UNCHANGED notAuth
    \/ \E c \in Consumers : Subscribe(c) /\ UNCHANGED notAuth
    \/ \E c \in Consumers : Unsubscribe(c) /\ UNCHANGED notAuth
    \/ \E s \in StorageContents : StorageChange(s) /\ UNCHANGED notAuth

Spec == Init /\ [][Next]_vars

\* ------------------------------------------------- a second AuthProvider
\* Every AuthProvider element runs the same function with a useState of its
\* own; both read the one slot 'user'.
BConstruct ==
    /\ bStatus # "mounted"
    /\ LET data == InitialUser(storage) IN
       /\ bStatus' = IF data.ok THEN "mounted" ELSE "crashed"
       /\ bUser' = data.val
    /\ bQueue' = << >>
    /\ bObs' = FALSE
    /\ bSeen' = NoState
    /\ UNCHANGED << authVars, ctrVars, cbVars, urVars, rfVars, efVars, wrVars, moreVars >>

\* Mutant: the state lives in one module-level store that both providers set.
BLogin_Shared(userData) ==
    /\ bStatus = "mounted"
    /\ Len(bQueue) < MaxQueue
    /\ bQueue' = SetUser(bUser, bQueue, LoginUpdate(userData))
    /\ queue' = IF pstatus = "mounted" THEN Append(queue, userData) ELSE queue
    /\ UNCHANGED << bStatus, bUser, bObs, bSeen >>
    /\ UNCHANGED << storage, pstatus, user, observers, seen, err,
                    owed, unsubscribed, lastWrite, lastOp, ctrVars, cbVars, urVars,
                    rfVars, efVars, wrVars, moreVars >>

BLogin(userData) ==
    /\ bStatus = "mounted"
    /\ Len(bQueue) < MaxQueue
    /\ bQueue' = SetUser(bUser, bQueue, LoginUpdate(userData))
    /\ UNCHANGED << bStatus, bUser, bObs, bSeen >>
    /\ UNCHANGED << authVars, ctrVars, cbVars, urVars, rfVars, efVars, wrVars, moreVars >>

BLogout ==
    /\ bStatus = "mounted"
    /\ Len(bQueue) < MaxQueue
    /\ bQueue' = SetUser(bUser, bQueue, LogoutUpdate)
    /\ UNCHANGED << bStatus, bUser, bObs, bSeen >>
    /\ UNCHANGED << authVars, ctrVars, cbVars, urVars, rfVars, efVars, wrVars, moreVars >>

BRender ==
    /\ bStatus = "mounted"
    /\ bQueue # << >>
    /\ bQueue' = << >>
    /\ IF ~JSONparse(storage).ok
       THEN /\ bStatus' = "crashed"
            /\ bUser' = NoState
            /\ bObs' = FALSE
            /\ bSeen' = NoState
       ELSE LET next == Reduce(bUser, bQueue) IN
            /\ bUser' = next
            /\ bSeen' = IF bObs /\ ~ObjectIs(next, bUser) THEN next ELSE bSeen
            /\ UNCHANGED << bStatus, bObs >>
    /\ UNCHANGED << authVars, ctrVars, cbVars, urVars, rfVars, efVars, wrVars, moreVars >>

BSubscribe ==
    /\ bStatus = "mounted"
    /\ bQueue = << >>
    /\ ~bObs
    /\ bObs' = TRUE
    /\ bSeen' = bUser
    /\ UNCHANGED << bStatus, bUser, bQueue >>
    /\ UNCHANGED << authVars, ctrVars, cbVars, urVars, rfVars, efVars, wrVars, moreVars >>

\* The two providers side by side, the first with the consumer c1.
NextCells ==
    \/ Construct /\ UNCHANGED notAuth
    \/ \E v \in LoginArgs : Login(v) /\ UNCHANGED notAuth
    \/ Logout /\ UNCHANGED notAuth
    \/ Render /\ UNCHANGED notAuth
    \/ Subscribe("c1") /\ UNCHANGED notAuth
    \/ \E s \in StorageContents : StorageChange(s) /\ UNCHANGED notAuth
    \/ BConstruct
    \/ \E v \in LoginArgs : BLogin(v)
    \/ BLogout
    \/ BRender
    \/ BSubscribe

SpecCells == Init /\ [][NextCells]_vars

\* ------------------------------------------------------------ the counters
notCounter == << authVars, cellVars, cbVars, urVars, rfVars, efVars, wrVars, moreVars >>

\* Home: onClick={()=>setCount(count+1)}.  A click is an event of its own and
\* React renders before the next one, so the handler of every click closes
\* over the count of the render before it.
HomeIncrement ==
    /\ hInc < MaxClicks
    /\ hCount' = hCount + 1
    /\ hInc' = hInc + 1
    /\ UNCHANGED << hDec, aCount, aQueue, aCalls, notCounter >>

\* Home: onClick={()=>setCount(count-1)}.
HomeDecrement ==
    /\ hDec < MaxClicks
    /\ hCount' = hCount - 1
    /\ hDec' = hDec + 1
    /\ UNCHANGED << hInc, aCount, aQueue, aCalls, notCounter >>

\* App: function increment() { setCount(count + 1) }, called through the
\* prop pressme.  count is the one of the render that made this increment;
\* the value is queued until App renders again.
AppIncrement ==
    /\ aCalls < MaxClicks
    /\ aQueue' = Append(aQueue, aCount + 1)
    /\ aCalls' = aCalls + 1
    /\ UNCHANGED << hCount, hInc, hDec, aCount, notCounter >>

\* App renders again: the queued values replace the state in call order.
AppRender ==
    /\ aQueue # << >>
    /\ aCount' = aQueue[Len(aQueue)]
    /\ aQueue' = << >>
    /\ UNCHANGED << hCount, hInc, hDec, aCalls, notCounter >>

NextCounter ==
    \/ HomeIncrement
    \/ HomeDecrement
    \/ AppIncrement
    \/ AppRender

SpecCounter == Init /\ [][NextCounter]_vars

\* ------------------------------------------------ Usecallback and Button
notCallback == << authVars, cellVars, ctrVars, urVars, rfVars, efVars, wrVars, moreVars >>

\* Hook dependencies are compared element by element.
DepsEqual(prev, next) == prev = next

\* The dependency array of useCallback in Usecallback: [].
IncrementDeps == << >>

\* Mutant: the function is not wrapped in useCallback.
UseCallback_Fresh(stored, fresh, prevDeps, deps) == fresh

\* useCallback: the stored function while the dependencies are the same, the
\* one of this render otherwise.
UseCallback(stored, fresh, prevDeps, deps) ==
    IF DepsEqual(prevDeps, deps) THEN stored ELSE fresh

\* Mutant: Button is exported without React.memo.
MemoSkips_Never(prev, next) == FALSE

\* React.memo: a render is skipped when every prop is the one of the last render.
MemoSkips(prev, next) == prev = next

\* Mutant: increment is setCount(count + 1) with the count of the first render.
ApplyUpdaters_Stale(count, n) == IF n = 0 THEN count ELSE 1

\* The state after n queued updaters prevCount => prevCount + 1, applied one
\* after the other.
RECURSIVE ApplyUpdaters(_, _)
ApplyUpdaters(count, n) ==
    IF n = 0 THEN count ELSE ApplyUpdaters(count + 1, n - 1)

\* The first render: the function of this render is stored and Button renders.
CbMount ==
    /\ ~cbMounted
    /\ cbMounted' = TRUE
    /\ cbRenders' = 1
    /\ cbFn' = 1
    /\ btnProps' = ButtonProps(1)
    /\ btnRenders' = 1
    /\ UNCHANGED << cbCount, cbOther, cbIncQ, notCallback >>

\* What a render of Usecallback after the first leaves: the queued updaters
\* are applied to count, increment comes from useCallback, and Button renders
\* unless React.memo skips it.
CbRerender(other) ==
    LET fn == UseCallback(cbFn, cbRenders + 1, IncrementDeps, IncrementDeps)
        props == ButtonProps(fn)
    IN  /\ cbCount' = ApplyUpdaters(cbCount, cbIncQ)
        /\ cbIncQ' = 0
        /\ cbOther' = other
        /\ cbRenders' = cbRenders + 1
        /\ cbFn' = fn
        /\ IF MemoSkips(btnProps, props)
           THEN UNCHANGED << btnProps, btnRenders >>
           ELSE btnProps' = props /\ btnRenders' = btnRenders + 1
        /\ UNCHANGED << cbMounted, notCallback >>

\* increment is called (a click on Button, or any caller that holds it):
\* setCount(prevCount => prevCount + 1) queues an updater.
CbInvoke ==
    /\ cbMounted
    /\ cbIncQ < MaxQueue
    /\ cbIncQ' = cbIncQ + 1
    /\ UNCHANGED << cbMounted, cbCount, cbOther, cbRenders, cbFn,
                    btnProps, btnRenders, notCallback >>

\* The render that applies the queued updaters.
CbRender ==
    /\ cbMounted
    /\ cbIncQ > 0
    /\ cbRenders < MaxRenders
    /\ CbRerender(cbOther)

\* A click on "Update Other Count": setOtherCount(otherCount + 1), and the
\* render React makes before the next event.
CbClickOther ==
    /\ cbMounted
    /\ cbRenders < MaxRenders
    /\ CbRerender(cbOther + 1)

NextCallback ==
    \/ CbMount
    \/ CbInvoke
    \/ CbRender
    \/ CbClickOther

SpecCallback == Init /\ [][NextCallback]_vars

\* ----------------------------------------------------------------- Useref
\* Useref is the consumer "c1" of the provider.
UserefId == "c1"

notUseref == << cellVars, ctrVars, cbVars, rfVars, efVars, wrVars, moreVars >>

\* Mutant: the effect has no dependency array and runs after every render.
EffectRuns_Always(prevDeps, deps) == TRUE

\* An effect with a dependency array runs after a render in which one of the
\* dependencies differs from the render before.
EffectRuns(prevDeps, deps) == ~DepsEqual(prevDeps, deps)

\* A render of Useref with the given count, and its effect after it: the
\* page shows prevCountRef.current as it is during the render, and the effect
\* stores count in it when count is not the one of the render before.
UrShow(prevCount, count) ==
    /\ urShownPrev' = urRef
    /\ urShownCur' = Num(count)
    /\ urCount' = count
    /\ urRef' = IF EffectRuns(prevCount, Num(count)) THEN Num(count) ELSE urRef
    /\ urBefore' = IF prevCount # NoNumber /\ prevCount # Num(count)
                   THEN prevCount ELSE urBefore

\* Useref leaves the page: its state and its ref are gone.
UrGone ==
    /\ urCount' = 0
    /\ urRef' = NoNumber
    /\ urShownPrev' = NoNumber
    /\ urShownCur' = NoNumber
    /\ urBefore' = NoNumber

\* Useref mounts below the provider: the first render, and the effect after it.
UrMount ==
    /\ Subscribe(UserefId)
    /\ UrShow(NoNumber, 0)
    /\ UNCHANGED notUseref

\* A click on Increment: setCount(count + 1), and the render React makes
\* before the next event.
UrIncrement ==
    /\ pstatus = "mounted"
    /\ UserefId \in observers
    /\ queue = << >>
    /\ urCount < MaxClicks
    /\ UrShow(Num(urCount), urCount + 1)
    /\ UNCHANGED << authVars, notUseref >>

\* The provider renders: Useref renders again when the context value it reads
\* has changed, and is gone when the provider's render throws.
UrProviderRender ==
    /\ Render
    /\ IF pstatus' = "crashed"
       THEN UrGone
       ELSE IF UserefId \in observers /\ seen'[UserefId] # seen[UserefId]
            THEN UrShow(Num(urCount), urCount)
            ELSE UNCHANGED urVars
    /\ UNCHANGED notUseref

UrUnmount ==
    /\ UserefId \in observers
    /\ Unsubscribe(UserefId)
    /\ UrGone
    /\ UNCHANGED notUseref

NextUseref ==
    \/ Construct /\ UNCHANGED notAuth
    \/ \E v \in LoginArgs : Login(v) /\ UNCHANGED notAuth
    \/ Logout /\ UNCHANGED notAuth
    \/ UrMount
    \/ UrIncrement
    \/ UrProviderRender
    \/ UrUnmount

SpecUseref == Init /\ [][NextUseref]_vars

\* ------------------------------------------------- Counter (ref and state)
notRef == << authVars, cellVars, ctrVars, cbVars, urVars, efVars, wrVars,
            moreVars >>

\* A render of Counter with the given state: the page shows countRef.current
\* and state as they are during the render.
RfShow(state) ==
    /\ rfState' = state
    /\ rfShownRef' = rfRef'
    /\ rfShownState' = state
    /\ rfRenders' = rfRenders + 1

\* The first render.
RfMount ==
    /\ ~rfMounted
    /\ rfMounted' = TRUE
    /\ rfRef' = 0
    /\ RfShow(0)
    /\ UNCHANGED notRef

\* Mutant: the count is kept in state, and a change of it renders.
IncrementRef_Renders ==
    /\ rfMounted
    /\ rfRef < MaxClicks
    /\ rfRef' = rfRef + 1
    /\ RfShow(rfState)
    /\ UNCHANGED << rfMounted, notRef >>

\* A click on "Increment Ref": countRef.current += 1, and nothing else.
IncrementRef ==
    /\ rfMounted
    /\ rfRef < MaxClicks
    /\ rfRef' = rfRef + 1
    /\ UNCHANGED << rfMounted, rfState, rfShownRef, rfShownState, rfRenders,
                    notRef >>

\* A click on "Increment State": setState(state + 1), and the render React
\* makes before the next event.
IncrementState ==
    /\ rfMounted
    /\ rfState < MaxClicks
    /\ rfRef' = rfRef
    /\ RfShow(rfState + 1)
    /\ UNCHANGED << rfMounted, notRef >>

NextRef ==
    \/ RfMount
    \/ IncrementRef
    \/ IncrementState

SpecRef == Init /\ [][NextRef]_vars

\* ---------------------------------------------------------------- effects
notEffect == << authVars, cellVars, ctrVars, cbVars, urVars, rfVars, moreVars >>

\* The dependencies an effect is given in a render with this count: none
\* (no array), [] or [count].
NoArray == [given |-> FALSE, items |-> << >>]

Array(items) == [given |-> TRUE, items |-> items]

Deps(k, count) ==
    CASE k = "every" -> NoArray
      [] k = "once" -> Array(<< >>)
      [] k = "count" -> Array(<< count >>)

\* An effect runs after the first render, after every render when it has no
\* dependency array, and otherwise when a dependency differs.
Scheduled(first, prev, next) ==
    first \/ ~next.given \/ EffectRuns(prev.items, next.items)

\* Mutant: the effect runs again without the cleanup of its last run.
Rerun_NoCleanup(log) == Append(log, "run")

\* An effect runs for the first time, or again: the cleanup its last run
\* returned is called first.
Rerun(log) ==
    IF log = << >> THEN << "run" >> ELSE log \o << "cleanup", "run" >>

\* The component unmounts: the cleanup of the last run is called.
Dispose(log) == IF log = << >> THEN log ELSE Append(log, "cleanup")

\* A render with the given count, and the effects after it.
EfCommit(first, count) ==
    /\ efCount' = count
    /\ efRenders' = efRenders + 1
    /\ efLog' = [k \in Effects |->
                    IF Scheduled(first, Deps(k, efCount), Deps(k, count))
                    THEN Rerun(efLog[k]) ELSE efLog[k]]

\* The first render.
EfMount ==
    /\ ~efMounted
    /\ efRenders = 0
    /\ efMounted' = TRUE
    /\ EfCommit(TRUE, 0)
    /\ UNCHANGED << wrVars, notEffect >>

\* setCount(v) with another value, and the render that follows.
EfSetCount(v) ==
    /\ efMounted
    /\ efRenders < MaxRenders
    /\ v # efCount
    /\ EfCommit(FALSE, v)
    /\ UNCHANGED << efMounted, wrVars, notEffect >>

\* A render in which count is the one of the render before (the parent
\* renders, or other state changes).
EfRenderAgain ==
    /\ efMounted
    /\ efRenders < MaxRenders
    /\ EfCommit(FALSE, efCount)
    /\ UNCHANGED << efMounted, wrVars, notEffect >>

EfUnmount ==
    /\ efMounted
    /\ efMounted' = FALSE
    /\ efLog' = [k \in Effects |-> Dispose(efLog[k])]
    /\ UNCHANGED << efCount, efRenders, wrVars, notEffect >>

\* WindowResize mounts: width starts as window.innerWidth, and the effect
\* registers the handleResize of this render.
WrMount ==
    /\ ~wrMounted
    /\ wrRenders < MaxRenders
    /\ wrMounted' = TRUE
    /\ wrWidth' = wrWindow
    /\ wrRenders' = wrRenders + 1
    /\ wrEffectFn' = wrRenders + 1
    /\ wrListeners' = wrListeners \cup {wrRenders + 1}
    /\ UNCHANGED << wrWindow, efVars, notEffect >>

\* The window is resized: each registered listener calls setWidth with the
\* new width; a mounted WindowResize renders again when the width is another,
\* which makes a new handleResize and runs no effect.
WrResize(w) ==
    /\ w # wrWindow
    /\ wrWindow' = w
    /\ IF wrMounted /\ wrEffectFn \in wrListeners /\ w # wrWidth
          /\ wrRenders < MaxRenders
       THEN wrWidth' = w /\ wrRenders' = wrRenders + 1
       ELSE UNCHANGED << wrWidth, wrRenders >>
    /\ UNCHANGED << wrMounted, wrEffectFn, wrListeners, efVars, notEffect >>

\* Mutant: the effect returns no cleanup.
WrUnmount_NoCleanup ==
    /\ wrMounted
    /\ wrMounted' = FALSE
    /\ UNCHANGED << wrWindow, wrWidth, wrRenders, wrEffectFn, wrListeners,
                    efVars, notEffect >>

\* WindowResize unmounts: the cleanup removes the handleResize the effect
\* registered.
WrUnmount ==
    /\ wrMounted
    /\ wrMounted' = FALSE
    /\ wrListeners' = wrListeners \ {wrEffectFn}
    /\ UNCHANGED << wrWindow, wrWidth, wrRenders, wrEffectFn, efVars, notEffect >>

NextEffect ==
    \/ EfMount
    \/ \E v \in 0 .. MaxClicks : EfSetCount(v)
    \/ EfRenderAgain
    \/ EfUnmount
    \/ WrMount
    \/ \E w \in Widths : WrResize(w)
    \/ WrUnmount

SpecEffect == Init /\ [][NextEffect]_vars

\* ------------------------------------------- an effect that sets its dependency
baseVars == << authVars, cellVars, ctrVars, cbVars, urVars, rfVars, efVars, wrVars >>

notLoop == << baseVars, mmVars, soVars, fmVars, rtVars >>

\* Mutant: the effect sets the count it has read.
LoopUpdate_Same(count) == count

\* The value the effect hands to setCount.
LoopUpdate(count) == count + 1

\* The first render: count is 0 and the effect is scheduled.
LpMount ==
    /\ ~lpMounted
    /\ lpMounted' = TRUE
    /\ lpCount' = 0
    /\ lpQueue' = << >>
    /\ lpDue' = TRUE
    /\ UNCHANGED notLoop

\* The effect runs: setCount(count + 1) with the count of its render; a value
\* that is the state already, with nothing pending, queues nothing.
LpEffect ==
    /\ lpMounted
    /\ lpDue
    /\ lpCount < MaxLoop
    /\ lpDue' = FALSE
    /\ lpQueue' = IF lpQueue = << >> /\ LoopUpdate(lpCount) = lpCount
                  THEN lpQueue
                  ELSE Append(lpQueue, LoopUpdate(lpCount))
    /\ UNCHANGED << lpMounted, lpCount, notLoop >>

\* The render that applies the queued value: the effect is scheduled again
\* when count is not the count of the render before.
LpRender ==
    /\ lpMounted
    /\ lpQueue # << >>
    /\ lpCount' = lpQueue[Len(lpQueue)]
    /\ lpQueue' = << >>
    /\ lpDue' = EffectRuns(<< lpCount >>, << lpCount' >>)
    /\ UNCHANGED << lpMounted, notLoop >>

\* The component leaves the page: its state and its pending work are gone.
LpUnmount ==
    /\ lpMounted
    /\ lpMounted' = FALSE
    /\ lpCount' = 0
    /\ lpQueue' = << >>
    /\ lpDue' = FALSE
    /\ UNCHANGED notLoop

NextLoop ==
    \/ LpMount
    \/ LpEffect
    \/ LpRender
    \/ LpUnmount

\* React runs a scheduled effect and renders a queued update without waiting
\* for anything.
SpecLoop ==
    Init /\ [][NextLoop]_vars /\ WF_vars(LpEffect) /\ WF_vars(LpRender)

\* ---------------------------------------------------------------- useMemo
notMemo == << baseVars, lpVars, fmVars, rtVars >>

\* Mutant: the value is computed in the body of the component, without useMemo.
Recomputes_Always(first, prevDeps, deps) == TRUE

\* useMemo computes the value in the first render and in a render in which a
\* dependency differs from the render before.
Recomputes(first, prevDeps, deps) == first \/ ~DepsEqual(prevDeps, deps)

\* The texts typed into the input.
Texts == {"", "a", "ab"}

\* A render of the component with count and text: useMemo(..., [count]).
MmCommit(first, count, text) ==
    /\ mmCount' = count
    /\ mmText' = text
    /\ mmRenders' = mmRenders + 1
    /\ mmComputes' = IF Recomputes(first, << mmCount >>, << count >>)
                     THEN mmComputes + 1 ELSE mmComputes

MmMount ==
    /\ ~mmMounted
    /\ mmRenders = 0
    /\ mmMounted' = TRUE
    /\ MmCommit(TRUE, 0, "")
    /\ UNCHANGED << soVars, notMemo >>

\* A click on "Increment Count": setCount(count + 1) and the render.
MmIncrement ==
    /\ mmMounted
    /\ mmRenders < MaxRenders
    /\ MmCommit(FALSE, mmCount + 1, mmText)
    /\ UNCHANGED << mmMounted, soVars, notMemo >>

\* Typing in the input: onChange calls setText with the new text, and the
\* render.
MmType(s) ==
    /\ mmMounted
    /\ mmRenders < MaxRenders
    /\ s # mmText
    /\ MmCommit(FALSE, mmCount, s)
    /\ UNCHANGED << mmMounted, soVars, notMemo >>

\* The users of the sorting example; rank is the place of the name in
\* alphabetical order.
Users ==
    << [id |-> 1, name |-> "Alice", rank |-> 1, age |-> 25],
       [id |-> 2, name |-> "Bob", rank |-> 2, age |-> 22],
       [id |-> 3, name |-> "Charlie", rank |-> 3, age |-> 30],
       [id |-> 4, name |-> "Dave", rank |-> 4, age |-> 20] >>

SortFields == {"name", "age"}

\* a[sortBy], as the comparison orders it.
Key(u, field) == IF field = "name" THEN u.rank ELSE u.age

\* [...users].sort((a, b) => (a[sortBy] > b[sortBy] ? 1 : -1)): the ids in
\* ascending order of the field.
SortUsers(field) ==
    CHOOSE s \in [1 .. Len(Users) -> 1 .. Len(Users)] :
        /\ \A i, j \in 1 .. Len(Users) : i # j => s[i] # s[j]
        /\ \A i \in 1 .. Len(Users) - 1 :
              Key(Users[s[i]], field) < Key(Users[s[i + 1]], field)

\* A render of the sorting example: useMemo(..., [sortBy]).
SoCommit(first, field) ==
    /\ soSortBy' = field
    /\ soRenders' = soRenders + 1
    /\ IF Recomputes(first, << soSortBy >>, << field >>)
       THEN soShown' = SortUsers(field) /\ soSorts' = soSorts + 1
       ELSE UNCHANGED << soShown, soSorts >>

SoMount ==
    /\ ~soMounted
    /\ soRenders = 0
    /\ soMounted' = TRUE
    /\ SoCommit(TRUE, "name")
    /\ UNCHANGED << soClicks, mmVars, notMemo >>

\* A click on "Sort by Name" or "Sort by Age": setSortBy(field); the field
\* already selected is the state already and nothing renders.
SoClick(field) ==
    /\ soMounted
    /\ soClicks < MaxClicks
    /\ soRenders < MaxRenders
    /\ soClicks' = soClicks + 1
    /\ IF field = soSortBy
       THEN UNCHANGED << soSortBy, soShown, soRenders, soSorts >>
       ELSE SoCommit(FALSE, field)
    /\ UNCHANGED << soMounted, mmVars, notMemo >>

NextMemo ==
    \/ MmMount
    \/ MmIncrement
    \/ \E s \in Texts : MmType(s)
    \/ SoMount
    \/ \E f \in SortFields : SoClick(f)

SpecMemo == Init /\ [][NextMemo]_vars

\* ------------------------------------------------------ Home with the form
notForm == << baseVars, lpVars, mmVars, soVars, rtVars >>

\* The texts typed into the two inputs.
Names == {"", "A", "Ann"}

Emails == {"", "ann", "ann@x.com"}

\* The texts an input of type email lets a form submit: the browser holds the
\* submit event back while the text is no address.
Submittable == {"", "ann@x.com"}

\* The text handleSubmit hands to alert.
AlertText(name, email) == "Name:" \o name \o " Email:" \o email

\* The first render: both inputs are empty.
FmMount ==
    /\ ~fmMounted
    /\ fmMounted' = TRUE
    /\ fmName' = ""
    /\ fmEmail' = ""
    /\ fmNameIn' = ""
    /\ fmEmailIn' = ""
    /\ UNCHANGED << fmAlert, fmPrevented, fmSubmits, notForm >>

\* Mutant: both inputs are bound to one state.
FmTypeName_Shared(s) ==
    /\ fmMounted
    /\ s # fmName
    /\ fmNameIn' = s
    /\ fmName' = s
    /\ fmEmail' = s
    /\ UNCHANGED << fmMounted, fmEmailIn, fmAlert, fmPrevented,
                    fmSubmits, notForm >>

\* Typing in the name input: onChange calls setName(e.target.value), and the
\* render.
FmTypeName(s) ==
    /\ fmMounted
    /\ s # fmName
    /\ fmNameIn' = s
    /\ fmName' = s
    /\ UNCHANGED << fmMounted, fmEmail, fmEmailIn, fmAlert, fmPrevented,
                    fmSubmits, notForm >>

\* Typing in the email input: onChange calls setEmail(e.target.value), and
\* the render.
FmTypeEmail(s) ==
    /\ fmMounted
    /\ s # fmEmail
    /\ fmEmailIn' = s
    /\ fmEmail' = s
    /\ UNCHANGED << fmMounted, fmName, fmNameIn, fmAlert, fmPrevented,
                    fmSubmits, notForm >>

\* A submit event: handleSubmit prevents the default action and alerts name
\* and email of the last render.
FmSubmit ==
    /\ fmMounted
    /\ fmEmail \in Submittable
    /\ fmSubmits < MaxClicks
    /\ fmSubmits' = fmSubmits + 1
    /\ fmPrevented' = TRUE
    /\ fmAlert' = AlertText(fmName, fmEmail)
    /\ UNCHANGED << fmMounted, fmName, fmEmail, fmNameIn, fmEmailIn, notForm >>

\* The page with the form is left.
FmUnmount ==
    /\ fmMounted
    /\ fmMounted' = FALSE
    /\ fmName' = ""
    /\ fmEmail' = ""
    /\ fmNameIn' = ""
    /\ fmEmailIn' = ""
    /\ UNCHANGED << fmAlert, fmPrevented, fmSubmits, notForm >>

NextForm ==
    \/ FmMount
    \/ \E s \in Names : FmTypeName(s)
    \/ \E s \in Emails : FmTypeEmail(s)
    \/ FmSubmit
    \/ FmUnmount

SpecForm == Init /\ [][NextForm]_vars

\* ------------------------------------------------------ App's route table
notRoutes == << baseVars, lpVars, mmVars, soVars, fmVars >>

\* A route: its path, the path split at "/", and the component of its element.
Route(p, parts, c) == [path |-> p, parts |-> parts, element |-> c]

\* The children of <Routes>, in the order they are written.
Routes ==
    << Route("/", << "", "" >>, "LoginForm"),
       Route("/", << "", "" >>, "Home"),
       Route("/About", << "", "About" >>, "AboutUs"),
       Route("/userprofile", << "", "userprofile" >>, "UserProfile"),
       Route("/data", << "", "data" >>, "UseEff"),
       Route("/usememo", << "", "usememo" >>, "UseMem"),
       Route("/callback", << "", "callback" >>, "Usecallback"),
       Route("/useref", << "", "useref" >>, "Useref") >>

\* The locations the browser is sent to.
Locations ==
    {"/", "/About", "/about", "/userprofile", "/data", "/usememo",
     "/callback", "/useref", "/home"}

\* A path as it is compared: without regard to case.
Lower(p) == IF p = "/About" THEN "/about" ELSE p

\* The rank of a route: the number of its parts, 1 for an empty part and 10
\* for a static one.
RECURSIVE Score(_)
Score(parts) ==
    IF parts = << >> THEN 0
    ELSE 1 + (IF parts[1] = "" THEN 1 ELSE 10) + Score(Tail(parts))

\* The route matches the location.
Matches(r, loc) == Lower(r.path) = Lower(loc)

\* Route i is tried before route j: the higher score, and of two routes with
\* the same score the one written first.
Before(i, j) ==
    \/ Score(Routes[i].parts) > Score(Routes[j].parts)
    \/ Score(Routes[i].parts) = Score(Routes[j].parts) /\ i < j

\* Mutant: every route that matches renders its element.
Rendered_All(loc) ==
    {Routes[i].element : i \in {k \in DOMAIN Routes : Matches(Routes[k], loc)}}

\* What <Routes> renders at a location: the element of the first route, in
\* the order of trial, that matches; nothing when none matches.
Rendered(loc) ==
    LET m == {k \in DOMAIN Routes : Matches(Routes[k], loc)} IN
    {Routes[i].element : i \in {k \in m : \A j \in m \ {k} : Before(k, j)}}

\* The page is opened at a location, or a link leads to it.
RtNavigate(loc) ==
    /\ Len(rtHistory) < MaxHistory
    /\ rtHistory' = Append(rtHistory, loc)
    /\ rtShown' = Rendered(loc)
    /\ UNCHANGED notRoutes

\* The browser's back button.
RtBack ==
    /\ Len(rtHistory) > 1
    /\ rtHistory' = SubSeq(rtHistory, 1, Len(rtHistory) - 1)
    /\ rtShown' = Rendered(rtHistory'[Len(rtHistory')])
    /\ UNCHANGED notRoutes

NextRoutes ==
    \/ \E loc \in Locations : RtNavigate(loc)
    \/ RtBack

SpecRoutes == Init /\ [][NextRoutes]_vars

\* ------------------------------------------------------------------ claims
Malformed(raw) == ~JSONparse(raw).ok

Write(op) == op \in {"login", "logout"}

\* C1: when the slot 'user' holds malformed data at construction, construction
\* raises no error and the first read returns the unset value.
C1_ConstructionNeverFails ==
    (lastOp.op = "construct" /\ Malformed(storage))
        => (err = "none" /\ pstatus = "mounted" /\ user = Null)

\* C2: when the slot 'user' is absent at construction, the cell is initialised
\* to the unset value (user = null), with no error.
C2_AbsentInitialisesUnset ==
    (lastOp.op = "construct" /\ storage = Absent)
        => (err = "none" /\ pstatus = "mounted" /\ user = Null)

C2_Witness ==
    lastOp.op = "construct" /\ storage = Absent /\ pstatus = "mounted"

C6_ExactlyOncePerCall ==
    (pstatus = "mounted" /\ queue = << >>) => \A c \in observers : owed[c] = 0

\* C6 as amended: an observer is re-rendered exactly once by each render of
\* the provider that changes user, and by nothing else, so not between its
\* subscription and the first following write; a login or logout of the value
\* already held, with nothing pending, queues nothing and notifies no one.
C6_OncePerChangingRender ==
    [][ LET changing == /\ lastOp'.op = "render"
                        /\ pstatus' = "mounted"
                        /\ ~ObjectIs(user', user)
            write == Write(lastOp'.op)
        IN  /\ \A c \in observers \cap observers' :
                 /\ changing => owed'[c] = owed[c] - 1 /\ Read(c)' = user'
                 /\ write => owed'[c] = owed[c] + 1 /\ Read(c)' = Read(c)
                 /\ (~changing /\ ~write) => owed'[c] = owed[c] /\ Read(c)' = Read(c)
                 /\ owed'[c] >= 0
            /\ (write /\ queue = << >> /\ ObjectIs(lastWrite', user))
                 => queue' = << >>
            /\ lastOp'.op = "subscribe" => owed'[lastOp'.who] = 0
      ]_vars

C6_Witness ==
    /\ lastOp.op = "render" /\ lastOp.again /\ user.tag = "object"
    /\ \E c \in observers : owed[c] = 1 /\ Read(c) = user

\* C7: once a consumer has unsubscribed it is not notified again, whatever
\* is written; the unsubscription takes effect in the step that makes it.
C7_NoNotifyAfterUnsubscribe ==
    [][ \A c \in Consumers :
          /\ (lastOp'.op = "unsubscribe" /\ lastOp'.who = c) => c \notin observers'
          /\ (c \notin observers /\ ~(lastOp'.op = "subscribe" /\ lastOp'.who = c))
               => /\ c \notin observers'
                  /\ Read(c)' = Read(c)
                  /\ owed'[c] = owed[c]
      ]_vars

C7_Witness ==
    /\ lastOp.op = "render" /\ pstatus = "mounted"
    /\ \E c \in unsubscribed : Read(c) = NoState
    /\ \E d \in observers : owed[d] = 0 /\ Read(d) = user

C9_VisibleBeforeWriteReturns ==
    lastWrite # NoState => \A c \in observers : Read(c) = lastWrite

\* C9 as amended: a write returns with its update queued and the observers
\* are re-rendered with it by the provider's next render; in every state all
\* subscribed observers see one value, the one the provider last rendered,
\* and a render leaves nothing pending.
C9_VisibleAtNextRender ==
    /\ \A c \in observers : Read(c) = user
    /\ lastOp.op = "render" => queue = << >>

C9_Witness ==
    /\ Write(lastOp.op) /\ queue # << >>
    /\ \E c \in observers : Read(c) = user /\ Read(c) # lastWrite

\* C10: after construction no operation fails, also when the slot 'user' has
\* become malformed and the provider renders again.
C10_OperationsNeverFail ==
    lastOp.op \in {"login", "logout", "render", "subscribe", "unsubscribe"}
        => (err = "none" /\ pstatus = "mounted")

\* C11: login and logout never modify the persisted store: the slot 'user'
\* holds after the call what it held before.
C11_WriteLeavesStore ==
    [][ Write(lastOp'.op) => storage' = storage ]_vars

C11_Witness ==
    Write(lastOp.op) /\ queue # << >> /\ lastWrite.tag = "object" /\ storage = Absent

\* C12: the value changes only through login and logout: user changes only in
\* the render that applies queued writes (or at construction), the value a
\* render leaves is the one last written whatever the slot holds by then, and
\* reads, subscriptions, unsubscriptions and changes of the slot leave it.
C12_OnlyWritesChangeValue ==
    [][ /\ user' # user
            => \/ lastOp'.op = "construct"
               \/ lastOp'.op = "render" /\ queue # << >>
        /\ (lastOp'.op = "render" /\ pstatus' = "mounted") => user' = lastWrite
        /\ lastOp'.op \in {"login", "logout", "subscribe", "unsubscribe", "storage"}
            => user' = user
      ]_vars

C12_Witness ==
    /\ lastOp.op = "render" /\ lastOp.again /\ pstatus = "mounted"
    /\ user = Null /\ storage = TextAnn

\* C13: two separately constructed providers are isolated: a login, a logout
\* or the render that applies it on one changes neither the state, the queue
\* nor what the consumer reads on the other, and notifies no consumer of it.
C13_CellsIsolated ==
    [][ /\ (queue' # queue \/ user' # user \/ seen' # seen \/ owed' # owed)
            => UNCHANGED << bStatus, bUser, bQueue, bObs, bSeen >>
        /\ (bQueue' # bQueue \/ bUser' # bUser \/ bSeen' # bSeen)
            => UNCHANGED << pstatus, user, queue, observers, seen, owed >>
      ]_vars

C13_Witness ==
    /\ pstatus = "mounted" /\ bStatus = "mounted"
    /\ lastOp.op = "render" /\ user = Ann /\ Read("c1") = Ann
    /\ bObs /\ bUser = Tooba /\ bSeen = Tooba

\* C14: count starts at 0, every Increment click adds 1 and every Decrement
\* click subtracts 1, so Home's count is n - m after n Increment and m
\* Decrement clicks; and App's count is k after k calls of increment.
C14_CountIsBalance ==
    /\ hCount = hInc - hDec
    /\ aQueue = << >> => aCount = aCalls

\* The part of C14 about Home alone.
C14_HomeBalance == hCount = hInc - hDec

\* C15: increment is created once: in every render of Usecallback the function
\* passed to Button as onClick is the one the first render created.
C15_IncrementCreatedOnce ==
    cbMounted => (cbFn = 1 /\ btnProps.onClick = 1)

C15_Witness ==
    cbRenders >= 3 /\ cbCount >= 1 /\ cbOther >= 1 /\ cbFn = 1

\* C16: Button renders again only when one of its props changes: a click on
\* "Update Other Count" renders Usecallback again and not Button.
C16_ButtonRendersOnPropChange ==
    [][ /\ (cbMounted /\ cbOther' # cbOther)
            => (cbRenders' = cbRenders + 1 /\ btnRenders' = btnRenders)
        /\ (cbMounted /\ btnRenders' # btnRenders) => btnProps' # btnProps
      ]_vars

C16_Witness ==
    cbOther >= 2 /\ cbRenders >= 3 /\ btnRenders = 1

\* C17: in every render of Useref, "Previous Count" shows the value count had
\* before its most recent change (nothing before the first change) and
\* "Current Count" shows count.
C17_PreviousCountShown ==
    UserefId \in observers
        => (urShownCur = Num(urCount) /\ urShownPrev = urBefore)

\* The part of C17 about "Current Count".
C17_CurrentCountShown ==
    UserefId \in observers => urShownCur = Num(urCount)

\* C18: a change of a ref's current value renders nothing: "Increment Ref"
\* adds 1 to the stored ref count and leaves the page as it is; a render
\* happens only with a state update, and it shows the ref count accumulated
\* until then.
C18_RefChangeRendersNothing ==
    [][ /\ rfRef' # rfRef
            => /\ rfRef' = rfRef + 1
               /\ rfShownRef' = rfShownRef
               /\ rfShownState' = rfShownState
               /\ rfRenders' = rfRenders
        /\ (rfMounted /\ rfRenders' # rfRenders)
            => /\ rfState' = rfState + 1
               /\ rfShownRef' = rfRef
      ]_vars

C18_Witness ==
    rfRef = 3 /\ rfShownRef = 2 /\ rfState = 1

\* The runs of an effect so far.
Runs(log) == Cardinality({i \in DOMAIN log : log[i] = "run"})

\* C19: the effect without a dependency array runs after every render, the
\* effect with [] runs once, after the first render, and the effect with
\* [count] runs after the first render and after just the renders in which
\* count is not the count of the render before.
C19_EffectSchedule ==
    [][ efRenders' # efRenders =>
          /\ Runs(efLog'["every"]) = Runs(efLog["every"]) + 1
          /\ Runs(efLog'["once"]) = (IF efRenders = 0 THEN 1 ELSE Runs(efLog["once"]))
          /\ Runs(efLog'["count"]) =
                Runs(efLog["count"])
                  + (IF efRenders = 0 \/ efCount' # efCount THEN 1 ELSE 0)
          /\ Runs(efLog'["once"]) = 1
          /\ Runs(efLog'["every"]) = efRenders'
      ]_vars

C19_Witness ==
    /\ efRenders = 4
    /\ Runs(efLog["every"]) = 4
    /\ Runs(efLog["once"]) = 1
    /\ Runs(efLog["count"]) = 2

\* An effect's runs and cleanups alternate, a run first.
Alternates(log) ==
    \A i \in DOMAIN log : log[i] = (IF i % 2 = 1 THEN "run" ELSE "cleanup")

\* C20: the cleanup of an effect is called before the effect runs again and
\* when the component unmounts; window has at most one resize listener of
\* WindowResize at any time and none once it has unmounted.
C20_CleanupOrder ==
    /\ \A k \in Effects :
          /\ Alternates(efLog[k])
          /\ efMounted => Len(efLog[k]) % 2 = 1
          /\ ~efMounted => Len(efLog[k]) % 2 = 0
    /\ Cardinality(wrListeners) <= 1
    /\ ~wrMounted => wrListeners = {}
    /\ wrMounted => wrListeners = {wrEffectFn}

C20_Witness ==
    /\ ~efMounted
    /\ Len(efLog["every"]) = 6
    /\ Len(efLog["count"]) = 4
    /\ Len(efLog["once"]) = 2
    /\ ~wrMounted
    /\ wrRenders = 3
    /\ wrEffectFn = 1
\* C21: an effect that calls setCount(count + 1) and lists count as its
\* dependency never comes to rest: while the component is mounted there is
\* always an effect to run or an update to render, count never goes back, and
\* count passes every value that is followed.
C21_EffectLoopsForever ==
    /\ [](lpMounted /\ lpCount < MaxLoop => lpDue \/ lpQueue # << >>)
    /\ [][lpMounted /\ lpMounted' => lpCount' >= lpCount]_vars
    /\ \A n \in 0 .. MaxLoop :
          (lpMounted /\ lpCount = n) ~> (~lpMounted \/ lpCount = MaxLoop)

C21_Witness ==
    lpMounted /\ lpCount = MaxLoop /\ lpDue
\* C22: a value memoized with useMemo is computed in the first render and in
\* the renders in which a listed dependency differs from the render before,
\* and in no other: typing in the text input renders without a computation,
\* and a click on the sort button already selected sorts nothing.
C22_MemoRecomputesOnChange ==
    [][ /\ mmRenders' # mmRenders =>
              mmComputes' = mmComputes
                  + (IF mmRenders = 0 \/ mmCount' # mmCount THEN 1 ELSE 0)
        /\ mmText' # mmText =>
              (mmRenders' = mmRenders + 1 /\ mmComputes' = mmComputes)
        /\ soRenders' # soRenders =>
              soSorts' = soSorts
                  + (IF soRenders = 0 \/ soSortBy' # soSortBy THEN 1 ELSE 0)
        /\ (soClicks' # soClicks /\ soSortBy' = soSortBy) =>
              (soSorts' = soSorts /\ soShown' = soShown)
        /\ soMounted' => soShown' = SortUsers(soSortBy')
      ]_vars

C22_Witness ==
    /\ mmRenders = 4 /\ mmText = "ab" /\ mmCount = 1 /\ mmComputes = 2
    /\ soClicks = 3 /\ soSortBy = "age" /\ soSorts = 2
    /\ soShown = << 4, 2, 1, 3 >>
\* The user record { name: "Ann", email: "ann@x.com" }.
IsAnnRecord(v) == v.tag = "object" /\ v.name = "Ann" /\ v.email = "ann@x.com"

C24_IncrementAddsOnePerCall ==
    [][ /\ (cbMounted /\ cbIncQ' # cbIncQ /\ cbRenders' = cbRenders)
            => (cbIncQ' = cbIncQ + 1 /\ cbCount' = cbCount /\ cbFn = 1)
        /\ (cbMounted /\ cbRenders' # cbRenders)
            => (cbCount' = cbCount + cbIncQ /\ cbIncQ' = 0)
      ]_vars

C24_Witness ==
    cbFn = 1 /\ cbRenders = 3 /\ cbCount = 4 /\ cbIncQ = 0
\* C25: in the form of Home, name and email are the last texts entered in
\* their own inputs, entering one leaves the other; a submit alerts the
\* current name and email, has its default action prevented and leaves name
\* and email.
C25_FormFields ==
    [][ /\ fmMounted' => (fmName' = fmNameIn' /\ fmEmail' = fmEmailIn')
        /\ (fmMounted /\ fmMounted' /\ fmNameIn' # fmNameIn) => fmEmail' = fmEmail
        /\ (fmMounted /\ fmMounted' /\ fmEmailIn' # fmEmailIn) => fmName' = fmName
        /\ fmSubmits' # fmSubmits =>
              /\ fmAlert' = "Name:" \o fmNameIn \o " Email:" \o fmEmailIn
              /\ fmPrevented'
              /\ fmMounted'
              /\ fmName' = fmName
              /\ fmEmail' = fmEmail
      ]_vars

C25_Witness ==
    /\ fmMounted /\ fmSubmits = 2
    /\ fmName = "Ann" /\ fmEmail = "ann@x.com"
    /\ fmAlert = "Name:Ann Email:ann@x.com"
\* The user the next render leaves: the last queued value, or the state when
\* nothing is queued.
Settled(state, q) == IF q = << >> THEN state ELSE q[Len(q)]

\* C26: logout is idempotent: after a logout the next render leaves user
\* unset, a second logout right after the first leaves that as it is, and a
\* logout while user is unset and nothing is pending changes nothing.
C26_LogoutIdempotent ==
    [][ /\ lastOp'.op = "logout" => Settled(user', queue') = Null
        /\ (lastOp.op = "logout" /\ lastOp'.op = "logout")
            => (Settled(user', queue') = Settled(user, queue) /\ user' = user)
        /\ (lastOp'.op = "logout" /\ user = Null /\ queue = << >>)
            => (user' = Null /\ queue' = << >>)
        /\ (lastOp.op = "logout" /\ lastOp'.op = "render" /\ pstatus' = "mounted")
            => (user' = Null /\ \A c \in observers' : Read(c)' = Null)
      ]_vars

C26_Witness ==
    /\ lastOp.op = "logout" /\ queue = << Null, Null >>
    /\ user.tag = "object" /\ "c1" \in observers
\* The registered paths, as a location is compared with them.
Registered ==
    {"/", "/about", "/userprofile", "/data", "/usememo", "/callback", "/useref"}

\* The current location.
Here == rtHistory[Len(rtHistory)]

\* C27: at a location that is a registered path App's route table renders
\* exactly one element; at "/" it is LoginForm, the first of the two routes
\* registered for "/", and Home is rendered at no location.
C27_OneElementPerPath ==
    rtHistory # << >> =>
        /\ Lower(Here) \in Registered => Cardinality(rtShown) = 1
        /\ Lower(Here) \notin Registered => rtShown = {}
        /\ Here = "/" => rtShown = {"LoginForm"}
        /\ "Home" \notin rtShown

C27_Witness ==
    /\ Len(rtHistory) = 3 /\ rtHistory[1] = "/About" /\ rtHistory[2] = "/home"
    /\ Here = "/" /\ rtShown = {"LoginForm"}
====
